---- MODULE Spec2Model ----
(***************************************************************************)
(* Model of src/ML.py, lines 42-55: the runnable variant of the script.    *)
(* (Lines 3-24 of the file are an outline in prose and are not modelled.)  *)
(*                                                                         *)
(* The script is a straight line of library calls.  Each statement is one  *)
(* action.  A library call is modelled by what the call does to the values *)
(* the script holds:                                                       *)
(*   - pd.read_csv: the file's rows; only the Class column is kept, the    *)
(*     9 feature columns are abstracted to their number;                   *)
(*   - train_test_split(test_size=0.3, random_state=0): ShuffleSplit with  *)
(*     n_test = ceil(test_size * n), n_train = n - n_test, ValueError when *)
(*     n_train = 0, test = permutation[:n_test],                           *)
(*     train = permutation[n_test:n_test+n_train];                         *)
(*   - LinearDiscriminantAnalysis.fit / fit_transform: the shape of the    *)
(*     projection only, (n_train, at most min(n_classes-1, n_features));   *)
(*   - np.unique: the sorted distinct labels; zip: stops at the shortest.  *)
(* Record numbers and positions are 1-based here (0-based in the script).  *)
(***************************************************************************)
EXTENDS Integers, Sequences, FiniteSets

VARIABLES pc, Class, perm, train_idx, test_idx, y_train, y_test,
          lda, data_projected, zipped, it, drawn, acc, err

vars == <<pc, Class, perm, train_idx, test_idx, y_train, y_test,
          lda, data_projected, zipped, it, drawn, acc, err>>

(* ------------------------------ bounds --------------------------------- *)

\* Largest number of rows of data.csv.
MaxN == 12

\* Largest number of distinct class labels in data.csv.
MaxClass == 7

\* Largest number of rows of one class in data.csv.
MaxPerClass == 2

\* Up to this many rows every permutation is a possible shuffle; above it the
\* shuffle is drawn from the affine permutations i |-> a*i + b (mod n) with a
\* shift b of MaxShift at most.
FullPermN == 4

MaxShift == 0

(* ------------------------- program constants --------------------------- *)

\* test_size=0.3, as the fraction TestNum / TestDen.
TestNum == 3
TestDen == 10

\* X = df.iloc[:,1:] of the 10 named columns: 9 feature columns.
NFeatures == 9

markers == <<"H", "+", "D", "d", "|", "_">>
colors == <<"b", "g", "r", "c", "m", "y">>

None == [none |-> TRUE]

(* ------------------------------ helpers -------------------------------- *)

Min(a, b) == IF a <= b THEN a ELSE b

Max(a, b) == IF a >= b THEN a ELSE b

Range(s) == {s[i] : i \in 1..Len(s)}

\* ceil(p / q) for p >= 0, q > 0.
Ceil(p, q) == (p + q - 1) \div q

RECURSIVE Gcd(_, _)
Gcd(a, b) == IF b = 0 THEN a ELSE Gcd(b, a % b)

\* The rows of the file, by class label.  The file lists its records class by
\* class: cuts is the set of rows after which the next class starts.
Rows(n, cuts) == [i \in 1..n |-> 1 + Cardinality({c \in cuts : c < i})]

\* rng.permutation(n): a permutation of the n record numbers fixed by the seed.
Permutations(n) ==
    IF n <= FullPermN
    THEN {p \in [1..n -> 1..n] : \A i, j \in 1..n : p[i] = p[j] => i = j}
    ELSE {[i \in 1..n |-> ((a * (i - 1) + b) % n) + 1] :
              <<a, b>> \in {ab \in (1..n) \X (0..Min(n - 1, MaxShift)) :
                                Gcd(ab[1], n) = 1}}

\* _validate_shuffle_split with a float test_size and train_size=None.
ShuffleSizesFloor(n) ==
    [n_test |-> (TestNum * n) \div TestDen,
     n_train |-> n - ((TestNum * n) \div TestDen)]

ShuffleSizes(n) ==
    [n_test |-> Ceil(TestNum * n, TestDen),
     n_train |-> n - Ceil(TestNum * n, TestDen)]

\* ShuffleSplit._iter_indices: the two slices of the permutation.
train_test_split_overlap(p, sz) ==
    [test |-> SubSeq(p, 1, sz.n_test),
     train |-> SubSeq(p, sz.n_test, sz.n_test + sz.n_train)]

train_test_split(p, sz) ==
    [test |-> SubSeq(p, 1, sz.n_test),
     train |-> SubSeq(p, sz.n_test + 1, sz.n_test + sz.n_train)]

\* Class[idx]: the labels of the selected records, in the order selected.
Take(labels, idx) == [k \in 1..Len(idx) |-> labels[idx[k]]]

\* np.unique(y): the distinct values of y in ascending order.
RECURSIVE SortedSeq(_)
SortedSeq(S) ==
    IF S = {} THEN <<>>
    ELSE LET lo == CHOOSE x \in S : \A z \in S : x <= z
         IN <<lo>> \o SortedSeq(S \ {lo})

np_unique_nodedup(y) == y

np_unique(y) == SortedSeq(Range(y))

\* zip(a, b, c): triples position by position, as many as the shortest has.
zip(a, b, c) ==
    [k \in 1..Min(Len(a), Min(Len(b), Len(c))) |-> <<a[k], b[k], c[k]>>]

\* y_train == l: the rows the boolean mask selects.
Mask(y, l) == {i \in 1..Len(y) : y[i] = l}

\* LinearDiscriminantAnalysis: min(n_classes - 1, n_features) components at most.
MaxComponents(y) == Max(0, Min(Cardinality(Range(y)) - 1, NFeatures))

(* ------------------------------- state --------------------------------- *)

Init ==
    /\ pc = "read_csv"
    /\ Class = <<>>
    /\ perm = <<>>
    /\ train_idx = <<>>
    /\ test_idx = <<>>
    /\ y_train = <<>>
    /\ y_test = <<>>
    /\ lda = None
    /\ data_projected = None
    /\ zipped = <<>>
    /\ it = 0
    /\ drawn = <<>>
    /\ acc = None
    /\ err = "none"

Raise(e) ==
    /\ pc' = "aborted"
    /\ err' = e

\* Lines 42-44: df = pd.read_csv(...); X = df.iloc[:,1:]; Class = df['Class'].
ReadCsv ==
    /\ pc = "read_csv"
    /\ \E n \in 1..MaxN : \E cuts \in SUBSET (1..(n - 1)) :
          /\ Cardinality(cuts) < MaxClass
          /\ \A l \in Range(Rows(n, cuts)) :
                Cardinality(Mask(Rows(n, cuts), l)) <= MaxPerClass
          /\ Class' = Rows(n, cuts)
    /\ pc' = "split"
    /\ UNCHANGED <<perm, train_idx, test_idx, y_train, y_test, lda,
                   data_projected, zipped, it, drawn, acc, err>>

\* Line 45, the train set would be empty: ValueError.
SplitRaises ==
    /\ pc = "split"
    /\ ShuffleSizes(Len(Class)).n_train = 0
    /\ Raise("ValueError")
    /\ UNCHANGED <<Class, perm, train_idx, test_idx, y_train, y_test, lda,
                   data_projected, zipped, it, drawn, acc>>

\* Line 45: X_train, X_test, y_train, y_test = train_test_split(...).
Split ==
    /\ pc = "split"
    /\ ShuffleSizes(Len(Class)).n_train > 0
    /\ \E p \in Permutations(Len(Class)) :
          LET s == train_test_split(p, ShuffleSizes(Len(Class)))
          IN /\ perm' = p
             /\ train_idx' = s.train
             /\ test_idx' = s.test
             /\ y_train' = Take(Class, s.train)
             /\ y_test' = Take(Class, s.test)
    /\ pc' = "new"
    /\ UNCHANGED <<Class, lda, data_projected, zipped, it, drawn, acc, err>>

\* Line 46: LDA = LinearDiscriminantAnalysis().
NewLDA ==
    /\ pc = "new"
    /\ lda' = [fitted |-> FALSE, classes |-> <<>>, n_components |-> 0, fits |-> 0]
    /\ pc' = "fit_transform"
    /\ UNCHANGED <<Class, perm, train_idx, test_idx, y_train, y_test,
                   data_projected, zipped, it, drawn, acc, err>>

\* LinearDiscriminantAnalysis.fit refuses as many classes as samples; whether it
\* refuses a single class depends on the library's version (both are modelled).
\* Line 48 fits what line 47 fitted, so it fails only if line 47 did.
FitMustRaise(y) == Len(y) = Cardinality(Range(y))

FitMayRaise(y) == FitMustRaise(y) \/ Cardinality(Range(y)) < 2

\* The number of discriminant directions fit can find: the rank of the class
\* means about their mean, which the abstracted feature values decide.
Components(y) == 0..MaxComponents(y)

Fitted(y, c) ==
    [fitted |-> TRUE, classes |-> np_unique(y), n_components |-> c,
     fits |-> lda.fits + 1]

\* Line 47, the fit fails: ValueError.
FitRaises ==
    /\ pc = "fit_transform"
    /\ FitMayRaise(y_train)
    /\ Raise("ValueError")
    /\ UNCHANGED <<Class, perm, train_idx, test_idx, y_train, y_test, lda,
                   data_projected, zipped, it, drawn, acc>>

\* Line 47: data_projected = LDA.fit_transform(X_train, y_train).
FitTransform ==
    /\ pc = "fit_transform"
    /\ ~FitMustRaise(y_train)
    /\ \E c \in Components(y_train) :
          /\ lda' = Fitted(y_train, c)
          /\ data_projected' = [rows |-> Len(y_train), cols |-> c]
    /\ pc' = "fit"
    /\ UNCHANGED <<Class, perm, train_idx, test_idx, y_train, y_test,
                   zipped, it, drawn, acc, err>>

\* Line 48: LDA.fit(X_train, y_train), on the data line 47 fitted.
Fit ==
    /\ pc = "fit"
    /\ lda' = Fitted(y_train, lda.n_components)
    /\ pc' = "zip"
    /\ UNCHANGED <<Class, perm, train_idx, test_idx, y_train, y_test,
                   data_projected, zipped, it, drawn, acc, err>>

\* Lines 49-53: markers, colors, the figure, and the zip the loop iterates.
Zip ==
    /\ pc = "zip"
    /\ zipped' = zip(np_unique(y_train), markers, colors)
    /\ it' = 1
    /\ pc' = "loop"
    /\ UNCHANGED <<Class, perm, train_idx, test_idx, y_train, y_test, lda,
                   data_projected, drawn, acc, err>>

\* Line 54: data_projected[:,0] or data_projected[:,1] is out of bounds.
ScatterRaises ==
    /\ pc = "loop"
    /\ it <= Len(zipped)
    /\ data_projected.cols < 2
    /\ Raise("IndexError")
    /\ UNCHANGED <<Class, perm, train_idx, test_idx, y_train, y_test, lda,
                   data_projected, zipped, it, drawn, acc>>

\* Line 54: ax0.scatter(... [y_train==l], ... [y_train==l], c=c, marker=m).
Scatter ==
    /\ pc = "loop"
    /\ it <= Len(zipped)
    /\ data_projected.cols >= 2
    /\ LET l == zipped[it][1]
           m == zipped[it][2]
           c == zipped[it][3]
       IN drawn' = Append(drawn, [rows |-> Mask(y_train, l), marker |-> m, color |-> c])
    /\ it' = it + 1
    /\ UNCHANGED <<pc, Class, perm, train_idx, test_idx, y_train, y_test, lda,
                   data_projected, zipped, acc, err>>

\* Line 53: the zip is exhausted.
LoopEnd ==
    /\ pc = "loop"
    /\ it > Len(zipped)
    /\ pc' = "score"
    /\ UNCHANGED <<Class, perm, train_idx, test_idx, y_train, y_test, lda,
                   data_projected, zipped, it, drawn, acc, err>>

\* Line 55: print(... LDA.score(X_test, y_test)): the share of the test records
\* the classifier labels as y_test does; which ones, the feature values decide.
Score ==
    /\ pc = "score"
    /\ \E right \in 0..Len(y_test) : acc' = [right |-> right, of |-> Len(y_test)]
    /\ pc' = "done"
    /\ UNCHANGED <<Class, perm, train_idx, test_idx, y_train, y_test, lda,
                   data_projected, zipped, it, drawn, err>>

Next ==
    \/ ReadCsv
    \/ SplitRaises
    \/ Split
    \/ NewLDA
    \/ FitRaises
    \/ FitTransform
    \/ Fit
    \/ Zip
    \/ ScatterRaises
    \/ Scatter
    \/ LoopEnd
    \/ Score

Spec == Init /\ [][Next]_vars

(* ------------------------------ claims --------------------------------- *)

\* Line 45 has returned a split.
SplitReturned == perm # <<>>

N == Len(Class)

\* No value occurs twice in s.
NoRepeat(s) == Cardinality(Range(s)) = Len(s)

Round(p, q) ==
    LET f == p \div q
        r == 2 * (p % q)
    IN IF r < q THEN f
       ELSE IF r > q THEN f + 1
       ELSE IF f % 2 = 0 THEN f ELSE f + 1

\* The first k entries of the permutation are the test records, the others
\* the train records.
SplitsAt(k) ==
    /\ test_idx = SubSeq(perm, 1, k)
    /\ train_idx = SubSeq(perm, k + 1, N)
    /\ Len(test_idx) = k
    /\ Len(train_idx) = N - k

\* C2 as stated: the split puts the first round(0.3 * N) permuted records on
\* the test side and the other N - round(0.3 * N) on the train side.
C2_Original == SplitReturned => SplitsAt(Round(TestNum * N, TestDen))

\* C2 amended: the split puts the first ceil(0.3 * N) permuted records on the
\* test side and the other N - ceil(0.3 * N) on the train side, where
\* ceil(0.3 * N) is the least k with 10 * k >= 3 * N.
C2_SplitSizesCeil ==
    SplitReturned =>
        \E k \in 0..N :
            /\ TestDen * k >= TestNum * N
            /\ TestDen * (k - 1) < TestNum * N
            /\ SplitsAt(k)

\* A split whose test side is larger than round(0.3 * N).
C2_Witness ==
    /\ SplitReturned
    /\ Len(test_idx) > Round(TestNum * N, TestDen)
    /\ Len(train_idx) >= 1

\* The number of distinct classes among the training records.
K == Cardinality(Range(y_train))

\* The position of label l among the sorted distinct training labels.
Rank(l) == Cardinality({x \in Range(y_train) : x <= l})

\* The scatter calls that drew training row i.
Draws(i) == {k \in 1..Len(drawn) : i \in drawn[k].rows}

Style(k) == <<drawn[k].marker, drawn[k].color>>

\* Every training row is drawn exactly once, and two rows are drawn with the
\* same marker/colour pair exactly when they are of the same class.
AllDrawnOnceByClass ==
    /\ \A i \in 1..Len(y_train) : Cardinality(Draws(i)) = 1
    /\ \A i, j \in 1..Len(y_train) :
          \A a \in Draws(i), b \in Draws(j) :
              (Style(a) = Style(b)) <=> (y_train[i] = y_train[j])

\* No row of a class after the sixth is drawn.
BeyondSixthNotDrawn ==
    \A i \in 1..Len(y_train) :
        Rank(y_train[i]) > Len(markers) => Draws(i) = {}

\* The script reached the scatter loop and has ended, normally or in the loop.
LoopOver == pc = "done" \/ (pc = "aborted" /\ err = "IndexError")

\* The fit found every direction the classes allow: min(K - 1, 9) columns.
FullRank == data_projected.cols = MaxComponents(y_train)

\* C10 as stated: once the scatter loop is over, every training row has been
\* drawn exactly once with a marker/colour pair unique to its class if and only
\* if the training set has at most 6 distinct classes, and rows of a class
\* beyond the sixth are never drawn.  (Stated for training sets of 2 classes or
\* more whose projection has all its columns, where the library's behaviour
\* does not depend on its version or on degenerate feature values.)
C10_Original ==
    (LoopOver /\ K >= 2 /\ FullRank) =>
        /\ AllDrawnOnceByClass <=> (K <= Len(markers))
        /\ BeyondSixthNotDrawn

\* C10 amended: the loop draws only when the projection has the two columns it
\* reads, which takes at least 3 training classes; otherwise its first pass
\* fails and nothing is drawn.  When the loop completes, each row of the first
\* six classes is drawn exactly once, with the marker and colour at its class's
\* position, and rows of later classes are never drawn; so every training row
\* is drawn exactly once with a pair unique to its class if and only if the
\* loop completes and the training set has at most 6 distinct classes.
C10_ScatterLoop ==
    LoopOver =>
        /\ AllDrawnOnceByClass <=> (pc = "done" /\ K <= Len(markers))
        /\ BeyondSixthNotDrawn
        /\ pc = "aborted" => drawn = <<>> /\ data_projected.cols < 2
        /\ pc = "done" =>
              /\ data_projected.cols >= 2
              /\ K >= 3
              /\ \A i \in 1..Len(y_train) :
                    Rank(y_train[i]) <= Len(markers) =>
                       /\ Cardinality(Draws(i)) = 1
                       /\ \A k \in Draws(i) :
                             Style(k) = <<markers[Rank(y_train[i])],
                                          colors[Rank(y_train[i])]>>

\* The loop completed on a training set of 7 classes: six calls, rows of the
\* seventh class left out.
C10_Witness ==
    /\ pc = "done"
    /\ K = 7
    /\ Len(drawn) = Len(markers)
    /\ \E i \in 1..Len(y_train) : Draws(i) = {}
    /\ \E i \in 1..Len(y_train) : Cardinality(Draws(i)) = 1

====
